---- MODULE Spec2Model ----
(***************************************************************************)
(* Model of the recostseg schema tooling:                                  *)
(*   - src/loader.js: the browser loader (path resolver, template          *)
(*     processor, injector, orchestrator loadSchema, init);                *)
(*   - src/unnamed/part_000: the build-time validator (validateSchemas).   *)
(*                                                                         *)
(* Strings are sequences of symbols.  A symbol is either one structural    *)
(* character or one multi-character block (a path segment, a placeholder   *)
(* token, a word).  The blocks form a prefix-free code, so two symbol      *)
(* sequences are equal exactly when the strings they spell are equal and a *)
(* prefix of symbols is a prefix of characters.                            *)
(***************************************************************************)
EXTENDS Integers, Sequences, FiniteSets, TLC

VARIABLES
    \* ---- loader.js: the page and the loader runs
    debug,       \* CONFIG.debug, fixed when the script starts
    readyState,  \* document.readyState: "loading" or "interactive"
    script,      \* position of the script: "start", "waiting" (listener on DOMContentLoaded), "ready"
    page,        \* index into Pages: the current location and meta elements
    now,         \* Date.now(), in whole seconds since the epoch
    runs,        \* one record per loadSchema invocation
    nruns,       \* number of loadSchema invocations so far
    head,        \* children of document.head, in order
    events,      \* schemaLoaded events dispatched on window, in order
    console,     \* [log |-> number of console.log lines, error |-> number of console.error lines]
    last,        \* the step just taken: [op, run, fetched]
    lastDone,    \* the run that completed most recently, 0 if none
    \* ---- getSchemaFile called on a pathname and then on the pathname plus a slash
    arg,         \* the pathname
    path,        \* the local path of the current call
    ret,         \* what the calls returned so far, in order
    rpc,         \* position: "call", "lookup" (path is normalized), "done"
    \* ---- validateSchemas
    dir,         \* names in the schemas directory, in readdir order
    files,       \* the names that passed the .json filter
    idx,         \* number of files handled so far by the forEach
    contents,    \* what readFileSync returned for each handled file
    reports,     \* what was printed for each handled file
    hasErrors,   \* the hasErrors flag
    vpc,         \* position of validateSchemas: "start", "scan", "exit"
    exitCode,    \* process exit status, -1 while the process runs
    \* ---- processSchema and buildSchemaUrl called on their own
    schemaArg,   \* the document handed to processSchema
    applied,     \* one record per processSchema call: [page, time, out]
    urls         \* one record per buildSchemaUrl call: [time, url]

loaderVars == <<debug, readyState, script, page, now, runs, nruns, head, events, console, last, lastDone>>
resolverVars == <<arg, path, ret, rpc>>
validatorVars == <<dir, files, idx, contents, reports, hasErrors, vpc, exitCode>>
callVars == <<schemaArg, applied, urls>>
vars == <<loaderVars, resolverVars, validatorVars, callVars>>

----------------------------------------------------------------------------
(* Bounds *)

MaxSuffix == 2    \* symbols appended to a base pathname handed to the resolver
MaxRuns == 2      \* loadSchema invocations per page
MaxTicks == 1     \* clock ticks per page
MaxFiles == 2     \* entries in the schemas directory

----------------------------------------------------------------------------
(* Sequences helpers *)

IsPrefix(p, s) == Len(p) <= Len(s) /\ SubSeq(s, 1, Len(p)) = p

RECURSIVE SeqsUpTo(_, _)
SeqsUpTo(S, n) ==
    IF n = 0 THEN {<<>>}
    ELSE LET shorter == SeqsUpTo(S, n - 1)
         IN  shorter \cup {Append(s, x) : s \in {t \in shorter : Len(t) = n - 1}, x \in S}

----------------------------------------------------------------------------
(* loader.js: Path Resolver *)

DefaultSchema == "default.json"

\* SCHEMA_MAP: exact pathname -> filename
SCHEMA_MAP ==
    (<<"/">> :> "homepage.json") @@
    (<<"/", "index">> :> "homepage.json") @@
    (<<"/", "services">> :> "services.json") @@
    (<<"/", "services", "/", "rapid-report">> :> "rapid-report.json") @@
    (<<"/", "services", "/", "engineered-study">> :> "engineered-study.json") @@
    (<<"/", "free-proposal">> :> "free-proposal.json") @@
    (<<"/", "faq">> :> "faq.json") @@
    (<<"/", "resources">> :> "resources.json") @@
    (<<"/", "contact">> :> "contact.json") @@
    (<<"/", "about">> :> "about.json")

\* PATTERN_MAP: each pattern is /^<prefix>/, kept as its prefix
PATTERN_MAP == <<
    [pattern |-> <<"/", "post", "/">>, schema |-> "blog-post.json"],
    [pattern |-> <<"/", "case-study", "/">>, schema |-> "case-study.json"],
    [pattern |-> <<"/", "state", "/">>, schema |-> "location.json"] >>

\* pattern.test(path) for an anchored literal pattern
PatternTest(pattern, p) == IsPrefix(pattern, p)

\* pathname.replace(/\/$/, '') || '/'
NormalizePathKeep(pathname) == IF pathname = <<>> THEN <<"/">> ELSE pathname
NormalizePath(pathname) ==
    LET stripped == IF pathname # <<>> /\ pathname[Len(pathname)] = "/"
                    THEN SubSeq(pathname, 1, Len(pathname) - 1)
                    ELSE pathname
    IN  IF stripped = <<>> THEN <<"/">> ELSE stripped

\* the for..of loop over PATTERN_MAP, from rule i on
RECURSIVE PatternLoop(_, _)
PatternLoop(p, i) ==
    IF i > Len(PATTERN_MAP) THEN DefaultSchema
    ELSE IF PatternTest(PATTERN_MAP[i].pattern, p) THEN PATTERN_MAP[i].schema
    ELSE PatternLoop(p, i + 1)

\* getSchemaFile after the normalization: exact match, patterns, default
LookupNoPatterns(p) == IF p \in DOMAIN SCHEMA_MAP THEN SCHEMA_MAP[p] ELSE DefaultSchema
Lookup(p) == IF p \in DOMAIN SCHEMA_MAP THEN SCHEMA_MAP[p] ELSE PatternLoop(p, 1)

GetSchemaFile(pathname) == Lookup(NormalizePath(pathname))

\* the symbols pathnames are spelled with
SuffixSymbols == {"/", "x", "post"}

\* A pathname is empty or starts with a slash, as location.pathname does on an
\* http(s) page.  The bases: every key of the exact table, every pattern
\* without its closing slash, the empty pathname and an unknown pathname.
BasePathnames ==
    DOMAIN SCHEMA_MAP
    \cup {SubSeq(PATTERN_MAP[i].pattern, 1, 2) : i \in DOMAIN PATTERN_MAP}
    \cup {<<>>, <<"/", "x">>}

Pathnames == {b \o t : b \in BasePathnames, t \in SeqsUpTo(SuffixSymbols, MaxSuffix)}

----------------------------------------------------------------------------
(* loader.js: the clock *)

cacheTime == 3600            \* CONFIG.cacheTime, seconds
\* 2026-12-31T23:59:59Z, one second before a cache window and a year end
StartTime == 499656 * cacheTime - 1
SecondsPerDay == 24 * 3600

\* new Date().getFullYear() at t seconds since the epoch, for a page in UTC:
\* the civil year of day number t \div SecondsPerDay (Gregorian calendar,
\* eras of 400 years = 146097 days, years counted from 1 March)
FullYear(t) ==
    LET z == t \div SecondsPerDay + 719468
        era == z \div 146097
        doe == z - era * 146097
        yoe == (doe - doe \div 1460 + doe \div 36524 - doe \div 146096) \div 365
        doy == doe - (365 * yoe + yoe \div 4 - yoe \div 100)
        mp == (5 * doy + 2) \div 153
        month == IF mp < 10 THEN mp + 3 ELSE mp - 9
    IN  yoe + era * 400 + (IF month <= 2 THEN 1 ELSE 0)

\* Math.floor(Date.now() / (CONFIG.cacheTime * 1000)); Date.now() is 1000 * t + ms
\* with 0 <= ms < 1000, so the quotient is t \div cacheTime
\* the timestamp without the division by the cache window
CacheBucketUndivided(t) == t
CacheBucket(t) == t \div cacheTime

\* buildSchemaUrl: the fixed parts of the URL are the same in every URL
BuildSchemaUrl(filename, t) == [file |-> filename, t |-> CacheBucket(t)]

----------------------------------------------------------------------------
(* loader.js: documents and their JSON text *)

Q == "\""      \* the double quote
BS == "\\"     \* the backslash

\* A document is a JSON object with a fixed head (@context, @type) and one
\* string-valued property; type stands for the head, name is the string.
FallbackDoc == [type |-> "Organization", name |-> <<"RE Cost Seg">>]
NoDoc == [type |-> "none", name |-> <<>>]
DocTypes == {"WebPage", "Article", "Organization"}

\* JSON.stringify of a string: quote and backslash are escaped
RECURSIVE Escape(_)
Escape(s) ==
    IF s = <<>> THEN <<>>
    ELSE (IF Head(s) \in {Q, BS} THEN <<BS, Head(s)>> ELSE <<Head(s)>>) \o Escape(Tail(s))

\* JSON.stringify(schema)
Stringify(doc) == <<"{", doc.type, Q>> \o Escape(doc.name) \o <<Q, "}">>

\* the body of a JSON string from position i on: [ok, value, next] where next
\* is the position after the closing quote
RECURSIVE ParseString(_, _, _)
ParseString(text, i, acc) ==
    IF i > Len(text) THEN [ok |-> FALSE, value |-> acc, next |-> i]
    ELSE IF text[i] = Q THEN [ok |-> TRUE, value |-> acc, next |-> i + 1]
    ELSE IF text[i] = BS THEN
        IF i + 1 <= Len(text) /\ text[i + 1] \in {Q, BS}
        THEN ParseString(text, i + 2, Append(acc, text[i + 1]))
        ELSE [ok |-> FALSE, value |-> acc, next |-> i]
    ELSE ParseString(text, i + 1, Append(acc, text[i]))

\* JSON.parse(schemaString): [ok |-> FALSE] stands for a SyntaxError
JsonParse(text) ==
    IF Len(text) >= 5 /\ text[1] = "{" /\ text[2] \in DocTypes /\ text[3] = Q
    THEN LET str == ParseString(text, 4, <<>>)
         IN  IF str.ok /\ str.next = Len(text) /\ text[str.next] = "}"
             THEN [ok |-> TRUE, doc |-> [type |-> text[2], name |-> str.value]]
             ELSE [ok |-> FALSE, doc |-> NoDoc]
    ELSE [ok |-> FALSE, doc |-> NoDoc]

----------------------------------------------------------------------------
(* loader.js: Metadata Extractor and Template Processor *)

Origin == "https://www.recostseg.com"

\* The pages of the site: location and meta elements.  <<>> is the empty
\* string, which is also what a missing meta element yields.
Pages == <<
    [pathname |-> <<"/", "post", "/", "x">>, title |-> <<"Tips", "$", "&">>,
     description |-> <<"Read">>, image |-> <<"img.png">>,
     published |-> <<"2026-01-01">>, author |-> <<"Ann">>, lang |-> <<"pt-BR">>],
    [pathname |-> <<"/", "services", "/">>, title |-> <<"Say", Q, "hi", Q>>, description |-> <<>>,
     image |-> <<>>, published |-> <<>>, author |-> <<>>, lang |-> <<>>] >>

OrElse(value, default) == IF value = <<>> THEN default ELSE value

\* new Date().toISOString(): one symbol per instant
IsoString(t) == <<ToString(t)>>

\* getPageMetadata answering from the page of the previous processSchema call
GetPageMetadataStale(pg, t) ==
    LET from == IF applied = <<>> THEN pg ELSE applied[Len(applied)].page
    IN  [url |-> <<Origin>> \o Pages[from].pathname,
         title |-> Pages[from].title,
         description |-> OrElse(Pages[from].description, <<>>),
         image |-> OrElse(Pages[from].image, <<>>),
         published |-> OrElse(Pages[from].published, <<>>),
         modified |-> IsoString(t),
         author |-> OrElse(Pages[from].author, <<"RE Cost Seg">>),
         lang |-> OrElse(Pages[from].lang, <<"en-US">>)]

GetPageMetadata(pg, t) ==
    [url |-> <<Origin>> \o Pages[pg].pathname,
     title |-> Pages[pg].title,
     description |-> OrElse(Pages[pg].description, <<>>),
     image |-> OrElse(Pages[pg].image, <<>>),
     published |-> OrElse(Pages[pg].published, <<>>),
     modified |-> IsoString(t),
     author |-> OrElse(Pages[pg].author, <<"RE Cost Seg">>),
     lang |-> OrElse(Pages[pg].lang, <<"en-US">>)]

\* the replacements object, in insertion order
Replacements(metadata, t) == <<
    [key |-> "{{CURRENT_URL}}", value |-> metadata.url],
    [key |-> "{{PAGE_TITLE}}", value |-> metadata.title],
    [key |-> "{{META_DESCRIPTION}}", value |-> metadata.description],
    [key |-> "{{OG_IMAGE}}", value |-> metadata.image],
    [key |-> "{{PUBLISHED_DATE}}", value |-> OrElse(metadata.published, metadata.modified)],
    [key |-> "{{MODIFIED_DATE}}", value |-> metadata.modified],
    [key |-> "{{AUTHOR}}", value |-> metadata.author],
    [key |-> "{{LANGUAGE}}", value |-> metadata.lang],
    [key |-> "{{YEAR}}", value |-> <<ToString(FullYear(t))>>] >>

\* the replacement string of String.prototype.replace: $$ is a dollar sign,
\* $& is the matched text
RECURSIVE Expand(_, _)
Expand(value, matched) ==
    IF value = <<>> THEN <<>>
    ELSE IF Head(value) = "$" /\ Len(value) >= 2 /\ value[2] = "$"
         THEN <<"$">> \o Expand(Tail(Tail(value)), matched)
    ELSE IF Head(value) = "$" /\ Len(value) >= 2 /\ value[2] = "&"
         THEN <<matched>> \o Expand(Tail(Tail(value)), matched)
    ELSE <<Head(value)>> \o Expand(Tail(value), matched)

\* schemaString.replace(new RegExp(key, 'g'), value)
RECURSIVE ReplaceAll(_, _, _)
ReplaceAll(text, key, value) ==
    IF text = <<>> THEN <<>>
    ELSE (IF Head(text) = key THEN Expand(value, key) ELSE <<Head(text)>>)
         \o ReplaceAll(Tail(text), key, value)

\* the forEach over Object.entries(replacements), from entry i on
RECURSIVE ApplyReplacements(_, _, _)
ApplyReplacements(text, reps, i) ==
    IF i > Len(reps) THEN text
    ELSE ApplyReplacements(ReplaceAll(text, reps[i].key, reps[i].value), reps, i + 1)

\* processSchema(schema) on page pg at time t: [ok |-> FALSE] stands for the
\* SyntaxError thrown by JSON.parse
ProcessSchema(schema, pg, t) ==
    JsonParse(ApplyReplacements(Stringify(schema), Replacements(GetPageMetadata(pg, t), t), 1))

----------------------------------------------------------------------------
(* loader.js: Injector *)

Marker == "recostseg"

\* an element of document.head
ScriptElement(marker, content) ==
    [tag |-> "script", type |-> "application/ld+json", marker |-> marker, textContent |-> content]

\* JSON.stringify(schemaData, null, CONFIG.debug ? 2 : 0)
TextContent(schemaData, dbg) == [indent |-> IF dbg THEN 2 ELSE 0, json |-> Stringify(schemaData)]

\* a JSON-LD script of the host page that the loader did not create
PageScript == ScriptElement("", [indent |-> 0, json |-> Stringify([type |-> "WebPage", name |-> <<"static">>])])

\* script[data-schema-loader="recostseg"]
IsMarked(el) == el.tag = "script" /\ el.marker = Marker

\* querySelectorAll(...).forEach(el => el.remove())
RemoveMarkedNone(h) == h
RemoveMarked(h) == SelectSeq(h, LAMBDA el : ~IsMarked(el))

\* injectSchema: the head after the call
InjectSchemaAppendFirst(h, schemaData, dbg) ==
    RemoveMarked(Append(h, ScriptElement(Marker, TextContent(schemaData, dbg))))
InjectSchemaKeepFirst(h, schemaData, dbg) ==
    IF SelectSeq(h, IsMarked) # <<>> THEN h
    ELSE Append(h, ScriptElement(Marker, TextContent(schemaData, dbg)))
InjectSchema(h, schemaData, dbg) ==
    Append(RemoveMarked(h), ScriptElement(Marker, TextContent(schemaData, dbg)))

MarkedElements(h) == SelectSeq(h, IsMarked)

----------------------------------------------------------------------------
(* loader.js: Loader Orchestrator *)

Runs == 1..MaxRuns

\* A run: pc is its position ("idle", "fetching" = awaiting fetch, "reading" =
\* awaiting response.json(), "done"); schemaFile and url are its locals.  The
\* other fields record its history: the page it started on, whether every
\* earlier run was done when it started, what it injected and how many events
\* it dispatched.
IdleRun == [pc |-> "idle", schemaFile |-> "", url |-> [file |-> "", t |-> 0],
            startPage |-> 0, alone |-> FALSE,
            outcome |-> "none", injected |-> NoDoc, dispatched |-> 0]

InFlight(rs) == {r \in Runs : rs[r].pc \in {"fetching", "reading"}}

\* last: whether the step just taken settled a fetch (op "response": the run
\* goes on to read the body) or ended a run (op "success" or "fallback"),
\* which run, and how that run's fetch settled
Step(op, r, fetched) == [op |-> op, run |-> r, fetched |-> fetched]
NoInjection == Step("other", 0, "none")

\* what the CDN can answer with
Templates == {
    [type |-> "WebPage", name |-> <<"{{PAGE_TITLE}}", "{{YEAR}}">>],
    [type |-> "Article", name |-> <<"{{AUTHOR}}", "{{CURRENT_URL}}">>] }
Bodies == {[parseable |-> FALSE, doc |-> NoDoc]} \cup {[parseable |-> TRUE, doc |-> d] : d \in Templates}
FetchOutcomes == {"reject", "notok", "ok"}
NavigationEvents == {"swup:contentReplaced", "turbo:load"}

\* log.info and log.success write only when CONFIG.debug; log.error always writes
LogInfo(c, dbg) == IF dbg THEN [c EXCEPT !.log = @ + 1] ELSE c
LogSuccess(c, dbg) == IF dbg THEN [c EXCEPT !.log = @ + 1] ELSE c
\* log.error writing only when CONFIG.debug
LogErrorGated(c) == IF debug THEN [c EXCEPT !.error = @ + 1] ELSE c
LogError(c) == [c EXCEPT !.error = @ + 1]

\* loadSchema up to its first await, abandoning the runs still in flight
LoadSchemaStartCancelling(pg, t) ==
    /\ nruns < MaxRuns
    /\ nruns' = nruns + 1
    /\ LET schemaFile == GetSchemaFile(Pages[pg].pathname)
       IN  runs' = [r \in Runs |->
                       IF r = nruns + 1
                       THEN [runs[r] EXCEPT !.pc = "fetching", !.schemaFile = schemaFile,
                                            !.url = BuildSchemaUrl(schemaFile, t),
                                            !.startPage = pg, !.alone = (InFlight(runs) = {})]
                       ELSE IF r \in InFlight(runs) THEN [runs[r] EXCEPT !.pc = "cancelled"]
                       ELSE runs[r]]
    /\ console' = LogInfo(console, debug)
    /\ last' = NoInjection
    /\ UNCHANGED <<debug, now, head, events, lastDone>>

\* loadSchema up to its first await, removing the marked elements at once
LoadSchemaStartClearing(pg, t) ==
    /\ nruns < MaxRuns
    /\ nruns' = nruns + 1
    /\ LET schemaFile == GetSchemaFile(Pages[pg].pathname)
       IN  runs' = [runs EXCEPT ![nruns + 1] =
                       [@ EXCEPT !.pc = "fetching", !.schemaFile = schemaFile,
                                 !.url = BuildSchemaUrl(schemaFile, t),
                                 !.startPage = pg, !.alone = (InFlight(runs) = {})]]
    /\ console' = LogInfo(console, debug)
    /\ last' = NoInjection
    /\ head' = RemoveMarked(head)
    /\ UNCHANGED <<debug, now, events, lastDone>>

\* loadSchema up to its first await, called on page pg at time t
LoadSchemaStart(pg, t) ==
    /\ nruns < MaxRuns
    /\ nruns' = nruns + 1
    /\ LET schemaFile == GetSchemaFile(Pages[pg].pathname)
       IN  runs' = [runs EXCEPT ![nruns + 1] =
                       [@ EXCEPT !.pc = "fetching", !.schemaFile = schemaFile,
                                 !.url = BuildSchemaUrl(schemaFile, t),
                                 !.startPage = pg, !.alone = (InFlight(runs) = {})]]
    /\ console' = LogInfo(console, debug)
    /\ last' = NoInjection
    /\ UNCHANGED <<debug, now, head, events, lastDone>>

\* the catch block of loadSchema for run r, whose fetch settled as fetched
CatchFallback(r, fetched) ==
    /\ head' = InjectSchema(head, FallbackDoc, debug)
    /\ console' = LogSuccess(LogError(console), debug)
    /\ runs' = [runs EXCEPT ![r] = [@ EXCEPT !.pc = "done", !.outcome = "fallback",
                                              !.injected = FallbackDoc]]
    /\ last' = Step("fallback", r, fetched)
    /\ lastDone' = r
    /\ UNCHANGED events

\* the schemaLoaded event; seen is what a listener finds marked in the head
\* when the event is dispatched
\* (file and schema are the event's detail; run records the dispatching run)
SchemaLoadedEventEarly(r, schemaFile, processedSchema, hBefore, hAfter) ==
    [run |-> r, file |-> schemaFile, schema |-> processedSchema, seen |-> MarkedElements(hBefore)]
SchemaLoadedEvent(r, schemaFile, processedSchema, hBefore, hAfter) ==
    [run |-> r, file |-> schemaFile, schema |-> processedSchema, seen |-> MarkedElements(hAfter)]

\* init() registering the DOMContentLoaded listener and calling loadSchema as well
InitScriptBoth ==
    /\ script = "start"
    /\ IF readyState = "loading"
       THEN /\ script' = "waiting"
            /\ LoadSchemaStart(page, now)
       ELSE /\ script' = "ready"
            /\ LoadSchemaStart(page, now)
    /\ UNCHANGED <<readyState, page>>

\* the script runs init()
InitScript ==
    /\ script = "start"
    /\ IF readyState = "loading"
       THEN /\ script' = "waiting"
            /\ last' = NoInjection
            /\ UNCHANGED <<debug, now, runs, nruns, head, events, console, lastDone>>
       ELSE /\ script' = "ready"
            /\ LoadSchemaStart(page, now)
    /\ UNCHANGED <<readyState, page>>

\* the document finishes parsing; the listener, if registered, calls loadSchema
DOMContentLoaded ==
    /\ readyState = "loading"
    /\ readyState' = "interactive"
    /\ IF script = "waiting"
       THEN /\ script' = "ready"
            /\ LoadSchemaStart(page, now)
       ELSE /\ last' = NoInjection
            /\ UNCHANGED <<script, debug, now, runs, nruns, head, events, console, lastDone>>
    /\ UNCHANGED page

\* the router replaces the page with pg and fires ev; the listener calls loadSchema
Navigate(ev, pg) ==
    /\ script # "start"
    /\ page' = pg
    /\ LoadSchemaStart(pg, now)
    /\ UNCHANGED <<readyState, script>>

\* response.ok; a rejected fetch has no response and goes to the catch block
ResponseOkUnchecked(outcome) == outcome # "reject"
ResponseOk(outcome) == outcome = "ok"

\* the fetch of run r settles
FetchSettle(r, outcome) ==
    /\ runs[r].pc = "fetching"
    /\ IF ResponseOk(outcome)
       THEN /\ runs' = [runs EXCEPT ![r] = [@ EXCEPT !.pc = "reading"]]
            /\ last' = Step("response", r, outcome)
            /\ UNCHANGED <<head, events, console, lastDone>>
       ELSE CatchFallback(r, outcome)
    /\ UNCHANGED <<debug, readyState, script, page, now, nruns>>

\* response.json() of run r settles with body; a failure is not caught
BodySettleUncaught(r, body) ==
    /\ runs[r].pc = "reading"
    /\ LET processed == IF body.parseable THEN ProcessSchema(body.doc, page, now)
                        ELSE [ok |-> FALSE, doc |-> NoDoc]
       IN  IF processed.ok
           THEN /\ head' = InjectSchema(head, processed.doc, debug)
                /\ console' = LogSuccess(console, debug)
                /\ events' = Append(events,
                                    SchemaLoadedEvent(r, runs[r].schemaFile, processed.doc, head, head'))
                /\ runs' = [runs EXCEPT ![r] = [@ EXCEPT !.pc = "done", !.outcome = "processed",
                                                          !.injected = processed.doc,
                                                          !.dispatched = @ + 1]]
                /\ last' = Step("success", r, "ok")
                /\ lastDone' = r
           ELSE /\ runs' = [runs EXCEPT ![r] = [@ EXCEPT !.pc = "done", !.outcome = "threw"]]
                /\ last' = NoInjection
                /\ UNCHANGED <<head, events, console, lastDone>>
    /\ UNCHANGED <<debug, readyState, script, page, now, nruns>>

\* response.json() of run r settles with body
BodySettle(r, body) ==
    /\ runs[r].pc = "reading"
    /\ LET processed == IF body.parseable THEN ProcessSchema(body.doc, page, now)
                        ELSE [ok |-> FALSE, doc |-> NoDoc]
       IN  IF processed.ok
           THEN /\ head' = InjectSchema(head, processed.doc, debug)
                /\ console' = LogSuccess(console, debug)
                /\ events' = Append(events,
                                    SchemaLoadedEvent(r, runs[r].schemaFile, processed.doc, head, head'))
                /\ runs' = [runs EXCEPT ![r] = [@ EXCEPT !.pc = "done", !.outcome = "processed",
                                                          !.injected = processed.doc,
                                                          !.dispatched = @ + 1]]
                /\ last' = Step("success", r, "ok")
                /\ lastDone' = r
           ELSE CatchFallback(r, "ok")
    /\ UNCHANGED <<debug, readyState, script, page, now, nruns>>

\* time passes
Tick ==
    /\ now < StartTime + MaxTicks
    /\ now' = now + 1
    /\ last' = NoInjection
    /\ UNCHANGED <<debug, readyState, script, page, runs, nruns, head, events, console, lastDone>>

LoaderInit ==
    /\ debug \in BOOLEAN
    /\ readyState \in {"loading", "interactive"}
    /\ script = "start"
    /\ page \in DOMAIN Pages
    /\ now = StartTime
    /\ runs = [r \in Runs |-> IdleRun]
    /\ nruns = 0
    /\ head = <<PageScript>>
    /\ events = <<>>
    /\ console = [log |-> 0, error |-> 0]
    /\ last = NoInjection
    /\ lastDone = 0

ResolverIdle == arg = <<>> /\ path = <<>> /\ ret = <<>> /\ rpc = "call"
ValidatorIdle ==
    /\ dir = <<>> /\ files = <<>> /\ idx = 0 /\ contents = <<>> /\ reports = <<>>
    /\ hasErrors = FALSE /\ vpc = "start" /\ exitCode = -1

CallsIdle == schemaArg = NoDoc /\ applied = <<>> /\ urls = <<>>

Init == LoaderInit /\ ResolverIdle /\ ValidatorIdle /\ CallsIdle

Next ==
    \/ InitScript /\ UNCHANGED <<resolverVars, validatorVars, callVars>>
    \/ DOMContentLoaded /\ UNCHANGED <<resolverVars, validatorVars, callVars>>
    \/ \E ev \in NavigationEvents, pg \in DOMAIN Pages :
           Navigate(ev, pg) /\ UNCHANGED <<resolverVars, validatorVars, callVars>>
    \/ \E r \in Runs, outcome \in FetchOutcomes :
           FetchSettle(r, outcome) /\ UNCHANGED <<resolverVars, validatorVars, callVars>>
    \/ \E r \in Runs, body \in Bodies :
           BodySettle(r, body) /\ UNCHANGED <<resolverVars, validatorVars, callVars>>
    \/ Tick /\ UNCHANGED <<resolverVars, validatorVars, callVars>>

Spec == Init /\ [][Next]_vars

\* the fetch of run r settles, in any way (line 156)
FetchSettles(r) ==
    \E outcome \in FetchOutcomes :
        FetchSettle(r, outcome) /\ UNCHANGED <<resolverVars, validatorVars, callVars>>
\* the body read of run r settles, in any way (line 162)
BodySettles(r) ==
    \E body \in Bodies :
        BodySettle(r, body) /\ UNCHANGED <<resolverVars, validatorVars, callVars>>

\* The runs of the loader with the clock standing still and the debug flag
\* disabled (neither decides where a run goes), and with every outstanding
\* fetch settling at some time; the body read of an ok response is a second
\* await and is left without such a condition
LiveInit == Init /\ ~debug
LiveNext ==
    \/ InitScript /\ UNCHANGED <<resolverVars, validatorVars, callVars>>
    \/ DOMContentLoaded /\ UNCHANGED <<resolverVars, validatorVars, callVars>>
    \/ \E ev \in NavigationEvents, pg \in DOMAIN Pages :
           Navigate(ev, pg) /\ UNCHANGED <<resolverVars, validatorVars, callVars>>
    \/ \E r \in Runs : FetchSettles(r)
    \/ \E r \in Runs : BodySettles(r)
LiveSpec == LiveInit /\ [][LiveNext]_vars /\ \A r \in Runs : WF_vars(FetchSettles(r))

----------------------------------------------------------------------------
(* Claims about the loader, checked under Spec *)

\* the marked script elements currently in the head
Marked == SelectSeq(head, IsMarked)
\* the element injectSchema creates for doc on this page
Injected(doc) == ScriptElement(Marker, TextContent(doc, debug))
Completed(r) == runs[r].pc = "done"

\* C1: in every reachable state the head holds at most one script element
\* marked data-schema-loader="recostseg", and right after any injectSchema call
\* (the step that ends a run, by success or by fallback) it holds exactly one.
C1_AtMostOneMarkedElement ==
    /\ Len(Marked) <= 1
    /\ last.op \in {"success", "fallback"} => Len(Marked) = 1

\* two overlapping runs, one ended by fallback and then one by success
C1_Witness ==
    /\ last.op = "success" /\ last.run = 2
    /\ Completed(1) /\ runs[1].outcome = "fallback" /\ ~runs[2].alone
    /\ Len(Marked) = 1

\* C2: the step in which the fetch of a run rejects or returns a non-ok
\* response ends that run on the fallback path: the run injects the hardcoded
\* Organization document, and the head then holds exactly one marked element,
\* the one with that document.
C2_FetchFailureInjectsFallback ==
    last.fetched \in {"reject", "notok"} =>
        /\ last.op = "fallback"
        /\ Completed(last.run)
        /\ runs[last.run].outcome = "fallback"
        /\ runs[last.run].injected = FallbackDoc
        /\ Marked = <<Injected(FallbackDoc)>>

\* a non-ok response replaces the processed document an earlier run injected
C2_Witness ==
    /\ last.op = "fallback" /\ last.fetched = "notok" /\ last.run = 2
    /\ runs[1].outcome = "processed"
    /\ Marked = <<Injected(FallbackDoc)>>

\* C3: when a run started after every earlier run was done, and no run has
\* started since, then once it is done the head holds exactly one marked
\* element and its content is the document this run injected.
C3_SequentialSecondRunWins ==
    \A r \in Runs :
        (r >= 2 /\ r = nruns /\ runs[r].alone /\ Completed(r)) =>
            Marked = <<Injected(runs[r].injected)>>

\* a processed document then a fallback, and a fallback then a processed document
C3_Witness ==
    /\ nruns = 2 /\ runs[2].alone /\ Completed(2)
    /\ runs[1].outcome = "processed" /\ runs[2].outcome = "fallback"
    /\ runs[1].injected # runs[2].injected
    /\ Marked = <<Injected(runs[2].injected)>>

\* C4: a run started while another was in flight gets its own record and both
\* complete with an injection of their own (nothing is deduplicated or
\* cancelled); once all started runs are done the single marked element holds
\* the document of the run that completed last, whichever started first.
C4_OverlapLastInjectionWins ==
    /\ \A r \in Runs : (r <= nruns) = (runs[r].pc # "idle")
    /\ \A r \in Runs : Completed(r) => runs[r].outcome \in {"processed", "fallback"}
                                       /\ runs[r].injected # NoDoc
    /\ ((\E r \in Runs : r <= nruns /\ ~runs[r].alone /\ r >= 2)
        /\ (\A r \in Runs : r <= nruns => Completed(r))) =>
            /\ lastDone \in 1..nruns
            /\ Marked = <<Injected(runs[lastDone].injected)>>

\* the run started first completes last and its document is the one in the page
C4_Witness ==
    /\ nruns = 2 /\ ~runs[2].alone /\ Completed(1) /\ Completed(2)
    /\ lastDone = 1
    /\ runs[1].injected # runs[2].injected
    /\ Marked = <<Injected(runs[1].injected)>>

\* C5: a run has dispatched one schemaLoaded event if it is done by the success
\* path and none otherwise; every event was dispatched when the head already
\* held the run's processed document as the only marked element, and carries
\* the filename the run resolved on its starting page (the one in its fetch
\* URL) and the processed document the run injected.
C5_EventOnSuccessOnly ==
    /\ \A r \in Runs :
           runs[r].dispatched = (IF Completed(r) /\ runs[r].outcome = "processed" THEN 1 ELSE 0)
    /\ Len(events) = Cardinality({r \in Runs : runs[r].outcome = "processed"})
    /\ \A i \in DOMAIN events :
           LET e == events[i] IN
           /\ runs[e.run].outcome = "processed"
           /\ e.file = runs[e.run].url.file
           /\ e.file = GetSchemaFile(Pages[runs[e.run].startPage].pathname)
           /\ e.schema = runs[e.run].injected
           /\ e.seen = <<Injected(e.schema)>>

\* the page changed while the run was in flight: the event carries the filename
\* of the starting page, and a run ended by fallback dispatched nothing
C5_Witness ==
    /\ last.op = "success"
    /\ page # runs[last.run].startPage
    /\ events[Len(events)].file # GetSchemaFile(Pages[page].pathname)
    /\ \E r \in Runs : Completed(r) /\ runs[r].outcome = "fallback" /\ runs[r].dispatched = 0

----------------------------------------------------------------------------
(* The Path Resolver on its own: getSchemaFile is called with the pathname   *)
(* arg and then with arg followed by a slash.                                *)

LoaderIdle ==
    /\ debug = FALSE /\ readyState = "loading" /\ script = "start" /\ page = 1
    /\ now = StartTime /\ runs = [r \in Runs |-> IdleRun] /\ nruns = 0
    /\ head = <<PageScript>> /\ events = <<>> /\ console = [log |-> 0, error |-> 0]
    /\ last = NoInjection /\ lastDone = 0

\* window.location.pathname of the current call
CallPathname == IF ret = <<>> THEN arg ELSE Append(arg, "/")

\* line 56: const path = window.location.pathname.replace(/\/$/, '') || '/'
ResolveNormalize ==
    /\ rpc = "call"
    /\ path' = NormalizePath(CallPathname)
    /\ rpc' = "lookup"
    /\ UNCHANGED <<arg, ret>>

\* lines 58-71: the lookups, up to the return
ResolveLookup ==
    /\ rpc = "lookup"
    /\ ret' = Append(ret, Lookup(path))
    /\ rpc' = IF Len(ret) = 0 THEN "call" ELSE "done"
    /\ UNCHANGED <<arg, path>>

ResolverInit ==
    /\ arg \in Pathnames /\ path = <<>> /\ ret = <<>> /\ rpc = "call"
    /\ LoaderIdle /\ ValidatorIdle /\ CallsIdle

ResolverNext ==
    \/ ResolveNormalize /\ UNCHANGED <<loaderVars, validatorVars, callVars>>
    \/ ResolveLookup /\ UNCHANGED <<loaderVars, validatorVars, callVars>>

ResolverSpec == ResolverInit /\ [][ResolverNext]_vars

----------------------------------------------------------------------------
(* Claims about the Path Resolver, checked under ResolverSpec *)

EndsWithSlash(p) == p # <<>> /\ p[Len(p)] = "/"
\* the pattern rules that match p
Matching(p) == {i \in DOMAIN PATTERN_MAP : IsPrefix(PATTERN_MAP[i].pattern, p)}
\* the first of a nonempty set of rules, in declaration order
First(rules) == CHOOSE i \in rules : \A j \in rules : i <= j

\* C6: each call returns the exact table's filename when the normalized path
\* is a key of the table; otherwise the filename of the first pattern rule, in
\* declaration order, that matches the normalized path; otherwise
\* default.json.  /post/x resolves to blog-post.json and /x/x to default.json.
C6_ExactThenPatternThenDefault ==
    /\ (ret # <<>> /\ rpc # "lookup") =>
           LET file == ret[Len(ret)] IN
           /\ path \in DOMAIN SCHEMA_MAP => file = SCHEMA_MAP[path]
           /\ (path \notin DOMAIN SCHEMA_MAP /\ Matching(path) # {}) =>
                  file = PATTERN_MAP[First(Matching(path))].schema
           /\ (path \notin DOMAIN SCHEMA_MAP /\ Matching(path) = {}) => file = "default.json"
    /\ (ret # <<>> /\ arg = <<"/", "post", "/", "x">>) => ret[1] = "blog-post.json"
    /\ (ret # <<>> /\ arg = <<"/", "x", "/", "x">>) => ret[1] = "default.json"

\* a pattern match on a path that is not in the exact table
C6_Witness ==
    /\ rpc = "done" /\ arg = <<"/", "state", "/", "x">>
    /\ ret = <<"location.json", "location.json">>

\* C7: the normalized path is the pathname without its last symbol when that
\* is a slash, and the pathname otherwise, with the empty result replaced by
\* /; so a pathname ending in two slashes keeps one, and for a pathname that
\* does not end in a slash the call with the slash appended returns what the
\* call without it returned (/services and /services/ give services.json, the
\* empty pathname and / give homepage.json).
C7_OneTrailingSlashStripped ==
    /\ rpc = "lookup" =>
           LET pathname == CallPathname
               stripped == IF EndsWithSlash(pathname)
                           THEN SubSeq(pathname, 1, Len(pathname) - 1) ELSE pathname
           IN  /\ path = (IF stripped = <<>> THEN <<"/">> ELSE stripped)
               /\ (EndsWithSlash(pathname) /\ EndsWithSlash(stripped)) =>
                      EndsWithSlash(path) /\ Len(path) = Len(pathname) - 1
    /\ (rpc = "done" /\ ~EndsWithSlash(arg)) => ret[2] = ret[1]
    /\ (rpc = "done" /\ arg = <<"/", "services">>) => ret = <<"services.json", "services.json">>
    /\ (rpc = "done" /\ arg = <<>>) => ret = <<"homepage.json", "homepage.json">>

\* /services/rapid-report and /services/rapid-report/ resolve to the same
\* file, which is not the default
C7_Witness ==
    /\ rpc = "done" /\ arg = <<"/", "services", "/", "rapid-report">>
    /\ ret = <<"rapid-report.json", "rapid-report.json">>

----------------------------------------------------------------------------
(* part_000: the Validator *)

\* A JSON value, as far as the validation schema looks at it: its type t and,
\* for a string, the string s.  Absent stands for a property that is not there.
Absent == [t |-> "absent", s |-> ""]
Str(string) == [t |-> "string", s |-> string]
Arr == [t |-> "array", s |-> ""]
Obj == [t |-> "object", s |-> ""]

\* JSON.parse(content) gave an object with these properties; extra tells
\* whether it has properties other than @context, @type and @graph
ObjectValue(context, type, graph, extra) ==
    [t |-> "object", context |-> context, type |-> type, graph |-> graph, extra |-> extra]
\* JSON.parse(content) gave a value that is no object
OtherValue(t) == [t |-> t, context |-> Absent, type |-> Absent, graph |-> Absent, extra |-> FALSE]

ContextValues == {Absent, Str("https://schema.org"), Str("http://schema.org"),
                  Str("https://schema.org/"), Arr}
TypeValues == {Absent, Str("Organization"), Arr}
GraphValues == {Absent, Arr, Obj}

ParsedValues ==
    {ObjectValue(c, ty, g, e) : c \in ContextValues, ty \in TypeValues, g \in GraphValues, e \in BOOLEAN}
    \cup {OtherValue("array"), OtherValue("string")}

\* what readFileSync can return: text JSON.parse rejects, or the text of a value
Unparsable == [parses |-> FALSE, value |-> OtherValue("none")]
Text(v) == [parses |-> TRUE, value |-> v]
AllContents == {Unparsable} \cup {Text(v) : v \in ParsedValues}

\* the contents the directory scan draws from: one of each kind of outcome
ScanContents ==
    {Unparsable, Text(OtherValue("array"))}
    \cup {Text(ObjectValue(c, ty, g, FALSE)) :
            c \in {Absent, Str("https://schema.org"), Str("https://schema.org/")},
            ty \in {Absent, Arr}, g \in {Absent, Obj}}

\* schemaOrgValidation.properties['@context']: oneOf two consts
ContextErrorsHttpsOnly(v) ==
    IF v = Str("https://schema.org") THEN <<>>
    ELSE <<"must be equal to constant", "must match exactly one schema in oneOf">>
ContextErrors(v) ==
    LET passing == {c \in {"https://schema.org", "http://schema.org"} : v = Str(c)}
    IN  IF Cardinality(passing) = 1 THEN <<>>
        ELSE IF passing = {}
        THEN <<"must be equal to constant", "must be equal to constant",
               "must match exactly one schema in oneOf">>
        ELSE <<"must match exactly one schema in oneOf">>

\* { type: 'string' } and { type: 'array' }
TypeErrors(v, t) == IF v.t = t THEN <<>> ELSE <<"must be " \o t>>

\* the properties keyword: a property that is absent is not checked
PropertyErrors(v) ==
    (IF v.context = Absent THEN <<>> ELSE ContextErrors(v.context))
    \o (IF v.type = Absent THEN <<>> ELSE TypeErrors(v.type, "string"))
    \o (IF v.graph = Absent THEN <<>> ELSE TypeErrors(v.graph, "array"))

\* required: ['@context']
RequiredErrors(v) ==
    IF v.context = Absent THEN <<"must have required property '@context'">> ELSE <<>>

\* validate(schema) with allErrors: [valid, errors]; the keywords for objects
\* apply to objects only
ValidateFirstError(v) ==
    LET errors == IF v.t # "object" THEN <<"must be object">>
                  ELSE RequiredErrors(v) \o PropertyErrors(v)
    IN  [valid |-> errors = <<>>, errors |-> IF errors = <<>> THEN <<>> ELSE <<errors[1]>>]
Validate(v) ==
    LET errors == IF v.t # "object" THEN <<"must be object">>
                  ELSE RequiredErrors(v) \o PropertyErrors(v)
    IN  [valid |-> errors = <<>>, errors |-> errors]

\* the names readdirSync can give: numbered stems, each with one of two extensions
Extensions == {".json", ".txt"}
Directories ==
    UNION {{[i \in 1..n |-> <<ToString(i), e[i]>>] : e \in [1..n -> Extensions]} : n \in 0..MaxFiles}

\* file.endsWith('.json')
EndsWithJson(name) == name # <<>> /\ name[Len(name)] = ".json"

\* lines 43-48: list the directory, keep the .json names, clear the flag
ListFiles ==
    /\ vpc = "start"
    /\ files' = SelectSeq(dir, EndsWithJson)
    /\ hasErrors' = FALSE
    /\ vpc' = "scan"
    /\ UNCHANGED <<dir, idx, contents, reports, exitCode>>

\* whether the forEach has handled every file
ScanOverOnError(i, fs, errs) == i = Len(fs) \/ errs
ScanOver(i, fs, errs) == i = Len(fs)

\* what is printed for a file: the mark and, for a failure, the messages
Report(file, valid, messages) == [file |-> file, valid |-> valid, messages |-> messages]

\* lines 50-70: one iteration of the forEach, readFileSync returning content
CheckFile(content) ==
    /\ vpc = "scan"
    /\ ~ScanOver(idx, files, hasErrors)
    /\ LET file == files[idx + 1]
           result == Validate(content.value)
       IN  /\ contents' = Append(contents, content)
           /\ IF content.parses
              THEN IF result.valid
                   THEN /\ reports' = Append(reports, Report(file, TRUE, <<>>))
                        /\ UNCHANGED hasErrors
                   ELSE /\ reports' = Append(reports, Report(file, FALSE, result.errors))
                        /\ hasErrors' = TRUE
              ELSE /\ reports' = Append(reports, Report(file, FALSE, <<"Invalid JSON: SyntaxError">>))
                   /\ hasErrors' = TRUE
    /\ idx' = idx + 1
    /\ UNCHANGED <<dir, files, vpc, exitCode>>

\* the status the process ends with
ExitStatusAlwaysZero(errs) == 0
ExitStatus(errs) == IF errs THEN 1 ELSE 0

\* lines 72-79: the summary, and process.exit(1) or the normal end
Finish ==
    /\ vpc = "scan"
    /\ ScanOver(idx, files, hasErrors)
    /\ vpc' = "exit"
    /\ exitCode' = ExitStatus(hasErrors)
    /\ UNCHANGED <<dir, files, idx, contents, reports, hasErrors>>

ValidatorStart(dirs) ==
    /\ dir \in dirs /\ files = <<>> /\ idx = 0 /\ contents = <<>> /\ reports = <<>>
    /\ hasErrors = FALSE /\ vpc = "start" /\ exitCode = -1

\* the Validator run on a directory of up to MaxFiles entries
ValidatorInit == ValidatorStart(Directories) /\ LoaderIdle /\ ResolverIdle /\ CallsIdle

ValidatorNext ==
    \/ ListFiles /\ UNCHANGED <<loaderVars, resolverVars, callVars>>
    \/ \E content \in ScanContents : CheckFile(content) /\ UNCHANGED <<loaderVars, resolverVars, callVars>>
    \/ Finish /\ UNCHANGED <<loaderVars, resolverVars, callVars>>

ValidatorSpec == ValidatorInit /\ [][ValidatorNext]_vars

\* the Validator run on a directory with one schema file of any content
OneFileInit == ValidatorStart({<<<<"1", ".json">>>>}) /\ LoaderIdle /\ ResolverIdle /\ CallsIdle

OneFileNext ==
    \/ ListFiles /\ UNCHANGED <<loaderVars, resolverVars, callVars>>
    \/ \E content \in AllContents : CheckFile(content) /\ UNCHANGED <<loaderVars, resolverVars, callVars>>
    \/ Finish /\ UNCHANGED <<loaderVars, resolverVars, callVars>>

OneFileSpec == OneFileInit /\ [][OneFileNext]_vars

----------------------------------------------------------------------------
(* Claims about the Validator *)

\* the shape the specification accepts
ShapeAccepted(v) ==
    /\ v.context \in {Str("https://schema.org"), Str("http://schema.org")}
    /\ v.type.t \in {"absent", "string"}
    /\ v.graph.t \in {"absent", "array"}

\* the .json names of the directory, in order
SchemaFiles == SelectSeq(dir, EndsWithJson)

\* C8 (under OneFileSpec): a parsed document is reported valid exactly when
\* its @context is "https://schema.org" or "http://schema.org", its @type is
\* absent or a string and its @graph is absent or an array, whatever other
\* properties it has; any other @context (a missing one too), a @type that is
\* present and not a string, or a @graph that is present and not an array
\* makes it invalid.
C8_ValidExactlyForAcceptedShape ==
    (idx = 1 /\ contents[1].parses) =>
        /\ reports[1].valid = ShapeAccepted(contents[1].value)
        /\ reports[1].valid = (reports[1].messages = <<>>)

\* the insecure context with a string @type, an array @graph and other properties
C8_Witness ==
    /\ idx = 1
    /\ contents[1] = Text(ObjectValue(Str("http://schema.org"), Str("Organization"), Arr, TRUE))
    /\ reports[1].valid

\* C9 (under ValidatorSpec): when the run ends, every .json file of the
\* directory has been read, and the exit status is non-zero exactly when at
\* least one of them was unparsable or not of the accepted shape; with every
\* file valid, and with no file at all, it is zero.
C9_ExitStatusIffSomeFileFails ==
    vpc = "exit" =>
        /\ Len(contents) = Len(SchemaFiles)
        /\ exitCode \in {0, 1}
        /\ (exitCode # 0) =
               (\E i \in DOMAIN contents :
                    ~contents[i].parses \/ ~ShapeAccepted(contents[i].value))
        /\ SchemaFiles = <<>> => exitCode = 0

\* a valid file after an invalid one: the run still fails
C9_Witness ==
    /\ vpc = "exit" /\ Len(contents) = 2 /\ exitCode = 1
    /\ contents[1].parses /\ ~ShapeAccepted(contents[1].value)
    /\ contents[2].parses /\ ShapeAccepted(contents[2].value)

\* C10 (under ValidatorSpec): the files reported so far are the first .json
\* files of the directory, each once and in order, whatever the earlier files
\* were; an unparsable file is reported invalid with the single parse-error
\* message; the process keeps running until the last file is handled, and
\* only then is the exit status decided.
C10_ScanContinuesAfterFailure ==
    /\ Len(reports) = idx /\ Len(contents) = idx /\ idx <= Len(SchemaFiles)
    /\ \A i \in DOMAIN reports :
           /\ reports[i].file = SchemaFiles[i]
           /\ ~contents[i].parses =>
                  reports[i] = Report(SchemaFiles[i], FALSE, <<"Invalid JSON: SyntaxError">>)
    /\ vpc # "exit" => exitCode = -1
    /\ vpc = "exit" => idx = Len(SchemaFiles)

\* an unparsable file, then a file of the wrong shape, then the end: both reported
C10_Witness ==
    /\ vpc = "exit" /\ Len(reports) = 2 /\ Len(dir) = 2
    /\ ~contents[1].parses /\ Len(reports[1].messages) = 1
    /\ contents[2].parses /\ ~reports[2].valid

\* the messages printed for the handled file
Messages(i) == {reports[i].messages[k] : k \in DOMAIN reports[i].messages}

----------------------------------------------------------------------------
(* processSchema called on its own, while the page and the clock change *)

MaxApplies == 3   \* processSchema calls on one document

\* the documents handed to processSchema
SchemaArgs == Templates \cup {
    [type |-> "WebPage", name |-> <<"About">>],
    [type |-> "WebPage", name |-> <<"{{YEAR}}", "-", "{{YEAR}}">>],
    [type |-> "Article", name |-> <<"{{META_DESCRIPTION}}", "{{OG_IMAGE}}", "{{PUBLISHED_DATE}}",
                                    "{{MODIFIED_DATE}}", "{{LANGUAGE}}">>] }

\* lines 101-124: one call processSchema(schema); the function reads the
\* page (getPageMetadata) and the clock (new Date) at the moment of the call
ApplySchema ==
    /\ Len(applied) < MaxApplies
    /\ applied' = Append(applied, [page |-> page, time |-> now,
                                   out |-> ProcessSchema(schemaArg, page, now)])
    /\ UNCHANGED <<schemaArg, urls>>

\* the location, the title and the meta elements change between two calls
PageChange(pg) ==
    /\ pg # page
    /\ page' = pg
    /\ UNCHANGED <<debug, readyState, script, now, runs, nruns, head, events, console, last, lastDone>>

TemplateInit ==
    /\ schemaArg \in SchemaArgs /\ applied = <<>> /\ urls = <<>>
    /\ debug = FALSE /\ readyState = "loading" /\ script = "start" /\ page \in DOMAIN Pages
    /\ now = StartTime /\ runs = [r \in Runs |-> IdleRun] /\ nruns = 0
    /\ head = <<PageScript>> /\ events = <<>> /\ console = [log |-> 0, error |-> 0]
    /\ last = NoInjection /\ lastDone = 0
    /\ ResolverIdle /\ ValidatorIdle

TemplateNext ==
    \/ ApplySchema /\ UNCHANGED <<loaderVars, resolverVars, validatorVars>>
    \/ \E pg \in DOMAIN Pages : PageChange(pg) /\ UNCHANGED <<resolverVars, validatorVars, callVars>>
    \/ Tick /\ UNCHANGED <<resolverVars, validatorVars, callVars>>

TemplateSpec == TemplateInit /\ [][TemplateNext]_vars

\* the placeholder tokens of the replacements object
PlaceholderTokens ==
    LET reps == Replacements(GetPageMetadata(1, StartTime), StartTime)
    IN {reps[i].key : i \in DOMAIN reps}

\* the value the replacements object holds for a symbol, the symbol itself if it is no token
ValueOf(sym, reps) ==
    IF \E i \in DOMAIN reps : reps[i].key = sym
    THEN reps[CHOOSE i \in DOMAIN reps : reps[i].key = sym].value
    ELSE <<sym>>

\* the text with every token replaced by its value, character for character
RECURSIVE Substituted(_, _)
Substituted(text, reps) ==
    IF text = <<>> THEN <<>> ELSE ValueOf(Head(text), reps) \o Substituted(Tail(text), reps)

\* C12 (under TemplateSpec): whenever processSchema returns a document, every
\* placeholder token of the input has been replaced by the corresponding
\* metadata value, all occurrences included, so that no placeholder token is
\* left in the output; a document without tokens comes back equal to the input.
C12_TokensReplacedByValues ==
    \A i \in DOMAIN applied :
        LET a == applied[i]
            reps == Replacements(GetPageMetadata(a.page, a.time), a.time)
        IN  a.out.ok =>
                /\ \A k \in DOMAIN a.out.doc.name : a.out.doc.name[k] \notin PlaceholderTokens
                /\ a.out.doc = [type |-> schemaArg.type, name |-> Substituted(schemaArg.name, reps)]

----------------------------------------------------------------------------
(* Further claims about the loader, checked under Spec *)

\* the documents processSchema can return on the current page at the current time
Processable ==
    {ProcessSchema(b.doc, page, now).doc :
        b \in {c \in Bodies : c.parseable /\ ProcessSchema(c.doc, page, now).ok}}

\* C13: a run whose fetch returned an ok response ends either with a processed
\* document or on the fallback path, never with an error that leaves the run.
\* The step that ends it on the fallback path (the body was not parseable or
\* the substituted text was not) leaves the fallback Organization document as
\* the only marked element and dispatches no event; the step that ends it with
\* success injects a document that processSchema really returns for some
\* parseable body on the page and at the time of the step.
C13_ProcessingFailureInjectsFallback ==
    /\ \A r \in Runs :
           Completed(r) => /\ runs[r].outcome \in {"processed", "fallback"}
                           /\ runs[r].injected # NoDoc
    /\ (last.op = "fallback" /\ last.fetched = "ok") =>
           /\ Completed(last.run)
           /\ runs[last.run].outcome = "fallback"
           /\ runs[last.run].injected = FallbackDoc
           /\ Marked = <<Injected(FallbackDoc)>>
           /\ runs[last.run].dispatched = 0
           /\ \A i \in DOMAIN events : events[i].run # last.run
    /\ last.op = "success" =>
           /\ runs[last.run].injected \in Processable
           /\ Marked = <<Injected(runs[last.run].injected)>>

\* on the page whose title holds quotes, after an ok response, the fallback
\* replaces the processed document of an earlier run
C13_Witness ==
    /\ last.op = "fallback" /\ last.fetched = "ok" /\ last.run = 2
    /\ page = 2
    /\ runs[1].outcome = "processed"
    /\ Marked = <<Injected(FallbackDoc)>>
    /\ Len(events) = 1 /\ events[1].run = 1

----------------------------------------------------------------------------
(* Further claims about processSchema, checked under TemplateSpec *)

C15_SettledFetchReachesDone ==
    \A r \in Runs : (runs[r].pc = "reading") ~> Completed(r)

\* a run in flight has injected nothing; a done run has injected a document
RunInjectsOnlyWhenDone ==
    \A r \in Runs :
        /\ runs[r].pc \in {"idle", "fetching", "reading", "done"}
        /\ ~Completed(r) => (runs[r].injected = NoDoc /\ runs[r].outcome = "none")
        /\ Completed(r) => (runs[r].injected # NoDoc /\ runs[r].outcome \in {"processed", "fallback"})

\* a run changes only when it starts or when its own fetch or body read settles
RunMovesOnlyByItself ==
    \A r \in Runs :
        runs'[r] # runs[r] =>
            \/ runs[r].pc = "idle" /\ r = nruns' /\ runs'[r].pc = "fetching"
            \/ last'.run = r /\ runs[r].pc = "fetching" /\ runs'[r].pc \in {"reading", "done"}
            \/ last'.run = r /\ runs[r].pc = "reading" /\ runs'[r].pc = "done"

\* C15 amended (under LiveSpec): a run is done, having injected the processed
\* or the fallback document, in the step in which its fetch rejects or returns
\* a non-ok response, and eventually after an ok response provided the body
\* read settles too; a run in flight has injected nothing, and no step of
\* another run or of a navigation changes it.
C15_SettledRunReachesDone ==
    /\ []RunInjectsOnlyWhenDone
    /\ [][RunMovesOnlyByItself]_vars
    /\ [](last.fetched \in {"reject", "notok"} => Completed(last.run))
    /\ \A r \in Runs :
           WF_vars(BodySettles(r)) =>
               ((runs[r].pc = "reading") ~> Completed(r))

\* the first run is done although the second started while it read its body
C15_Witness ==
    /\ last.run = 1 /\ last.op \in {"success", "fallback"} /\ last.fetched = "ok"
    /\ Completed(1) /\ runs[1].injected # NoDoc
    /\ runs[2].pc = "fetching" /\ ~runs[2].alone /\ runs[2].injected = NoDoc

\* what a step does to the runs when it starts one
StartsOneRun ==
    /\ nruns' = nruns + 1
    /\ runs[nruns'].pc = "idle" /\ runs'[nruns'].pc = "fetching"
    /\ runs'[nruns'].startPage = page'
    /\ runs'[nruns'].schemaFile = GetSchemaFile(Pages[page'].pathname)
    /\ \A r \in Runs \ {nruns'} : runs'[r] = runs[r]

TriggerStartsOneRun ==
    /\ nruns' \in {nruns, nruns + 1}
    /\ nruns' # nruns => StartsOneRun
    \* the script start: a run at once exactly when the document is not loading
    /\ script = "start" /\ script' # "start" =>
           /\ script' = (IF readyState = "loading" THEN "waiting" ELSE "ready")
           /\ (nruns' # nruns) = (readyState # "loading")
    \* the DOMContentLoaded signal: a run exactly when the script waited for it
    /\ readyState' # readyState =>
           /\ readyState = "loading"
           /\ (nruns' # nruns) = (script = "waiting")
           /\ script' = (IF script = "waiting" THEN "ready" ELSE script)
    \* the script position moves forward only, so the initial load starts one run
    /\ script' # script => (script' = "ready") = (nruns' # nruns)
    /\ script = "ready" => script' = "ready"
    \* a navigation: the page is replaced and a run starts on the new page
    /\ page' # page => /\ nruns' # nruns
                       /\ script' = script /\ readyState' = readyState

\* C16: every step starts at most one run; the initial load starts one run, in
\* the script start when the document is not loading and at DOMContentLoaded
\* when it was, never at both; a navigation event starts one run; a started run
\* is at its fetch with the file resolved for the path of that moment, and the
\* other runs are unchanged.
C16_EachTriggerStartsOneRun == [][TriggerStartsOneRun]_vars

\* the initial run at DOMContentLoaded and then a navigation to a page resolving
\* to another file
C16_Witness ==
    /\ script = "ready" /\ readyState = "interactive" /\ nruns = 2
    /\ runs[1].startPage # runs[2].startPage
    /\ runs[1].schemaFile # runs[2].schemaFile
    /\ runs[2].startPage = page /\ runs[2].pc = "fetching" /\ runs[1].pc = "fetching"

\* the head changes only in the step that ends a run, and that step leaves the
\* document of that run as the only marked element
HeadChangesOnlyAtInjection ==
    head' # head =>
        /\ last'.op \in {"success", "fallback"}
        /\ ~Completed(last'.run) /\ runs'[last'.run].pc = "done"
        /\ SelectSeq(head', IsMarked) = <<Injected(runs'[last'.run].injected)>>

\* C17: the marked elements change only in the step in which a run injects, not
\* when a run starts nor when its fetch settles with an ok response; that step
\* removes the old element and appends the new one together, so once some run
\* has injected, every state has exactly one marked element.
C17_MarkedElementKeptUntilInjection ==
    /\ [][HeadChangesOnlyAtInjection]_vars
    /\ [](lastDone # 0 => Len(Marked) = 1)
    /\ [](lastDone = 0 => Len(Marked) = 0)

\* the second run has its ok response and reads the body; the document of the
\* first run is still the marked element
C17_Witness ==
    /\ last.op = "response" /\ last.run = 2 /\ runs[2].pc = "reading"
    /\ Completed(1) /\ runs[1].outcome = "processed" /\ runs[2].alone
    /\ Marked = <<Injected(runs[1].injected)>>

\* the runs that ended on the fallback path, and the runs that are done
FallbackRuns == {r \in Runs : Completed(r) /\ runs[r].outcome = "fallback"}
DoneRuns == {r \in Runs : Completed(r)}

\* C18 as stated: with the debug flag disabled nothing is written to the
\* console, whatever the runs did.
C18_SilentWithoutDebug ==
    ~debug => console = [log |-> 0, error |-> 0]

\* C18 amended: every run that ended on the fallback path wrote one
\* console.error line, with the debug flag enabled or disabled; the console.log
\* lines (one when a run starts, one when it injects) are written only with the
\* debug flag enabled.
C18_ErrorsLoggedWhateverDebug ==
    /\ console.error = Cardinality(FallbackRuns)
    /\ console.log = (IF debug THEN nruns + Cardinality(DoneRuns) ELSE 0)

\* debug disabled: a rejected fetch and an ok response that could not be
\* processed wrote one error line each and nothing else
C18_Witness ==
    /\ ~debug
    /\ last.op = "fallback" /\ last.fetched = "ok" /\ last.run = 2
    /\ FallbackRuns = {1, 2}
    /\ console = [log |-> 0, error |-> 2]

----------------------------------------------------------------------------
(* buildSchemaUrl called on its own, while the clock advances *)

MaxBuilds == 3    \* buildSchemaUrl calls
MaxWindows == 2   \* cache windows the clock can advance through

\* the filenames the pages resolve to
UrlFiles == {GetSchemaFile(Pages[pg].pathname) : pg \in DOMAIN Pages}

\* the instants looked at: the last second of a cache window and the first
\* second of the next one
UrlTimes == {StartTime + w * cacheTime + e : w \in 0..MaxWindows, e \in {0, 1}}

\* lines 77-80: one call buildSchemaUrl(filename), reading Date.now()
BuildUrl(filename) ==
    /\ Len(urls) < MaxBuilds
    /\ urls' = Append(urls, [file |-> filename, time |-> now, url |-> BuildSchemaUrl(filename, now)])
    /\ UNCHANGED <<schemaArg, applied>>

\* time passes up to the instant t
AdvanceTo(t) ==
    /\ t > now
    /\ now' = t
    /\ UNCHANGED <<debug, readyState, script, page, runs, nruns, head, events, console, last, lastDone>>

UrlInit == LoaderIdle /\ ResolverIdle /\ ValidatorIdle /\ CallsIdle

UrlNext ==
    \/ \E filename \in UrlFiles : BuildUrl(filename) /\ UNCHANGED <<loaderVars, resolverVars, validatorVars>>
    \/ \E t \in UrlTimes : AdvanceTo(t) /\ UNCHANGED <<resolverVars, validatorVars, callVars>>

UrlSpec == UrlInit /\ [][UrlNext]_vars

\* the number k of the window [k * cacheTime, (k + 1) * cacheTime) holding t
WindowOf(t) ==
    CHOOSE k \in (StartTime \div cacheTime)..(StartTime \div cacheTime + MaxWindows + 1) :
        k * cacheTime <= t /\ t < (k + 1) * cacheTime

\* C19 (under UrlSpec): the bucket of a URL is the number of the cache window
\* its build time lies in; two URLs built for the same filename are equal
\* exactly when their build times lie in the same window; the bucket of a
\* later URL is never smaller than the bucket of an earlier one.
C19_SameUrlIffSameWindow ==
    /\ \A i \in DOMAIN urls : urls[i].url.t = WindowOf(urls[i].time)
    /\ \A i, j \in DOMAIN urls :
           /\ urls[i].file = urls[j].file =>
                  ((urls[i].url = urls[j].url) = (WindowOf(urls[i].time) = WindowOf(urls[j].time)))
           /\ i <= j => urls[i].url.t <= urls[j].url.t

\* the same filename at the first and at the last second of one window, and
\* again one second later
C19_Witness ==
    /\ Len(urls) = 3
    /\ urls[1].file = urls[2].file /\ urls[2].file = urls[3].file
    /\ urls[1].time = StartTime + 1
    /\ urls[2].time = StartTime + cacheTime
    /\ urls[3].time = StartTime + cacheTime + 1
    /\ urls[1].url = urls[2].url
    /\ urls[3].url # urls[2].url

====
